---- MODULE Spec2Model ----
(***************************************************************************)
(* Model of the price-optimisation repository:                             *)
(*   src/src/01_generate-synthetic-data.py  the synthetic data generator   *)
(*                                          and the script's main block    *)
(*   src/src/utils.py                       LoggerManager (log retention)  *)
(*                                                                         *)
(* Three specifications share the module:                                  *)
(*   SpecGen   module load (seed) and calls of generate_synthetic_data     *)
(*   SpecMain  one run of the script's __main__ block                      *)
(*   SpecLog   constructions of LoggerManager and calls of its methods     *)
(*                                                                         *)
(* Reals are modelled by integers.  The random generator of numpy is a     *)
(* deterministic stream fixed by the seed: the stream is an arbitrary      *)
(* periodic sequence of raw values, chosen in Init, and every variate      *)
(* consumes one raw value of it.                                           *)
(***************************************************************************)
EXTENDS Integers, Sequences, FiniteSets

VARIABLES
    stream,          \* the stream np.random.seed(1) selects: position -> raw value
    pos,             \* the generator's position in the stream
    run,             \* number of processes that loaded the module so far
    calls,           \* calls of generate_synthetic_data in the current process
    results,         \* returned datasets: the first ever returned and the last
    emitted,         \* records logged through `log`: <<[level, msg]>>
    pc,              \* position of the __main__ block
    ran,             \* the steps the __main__ block called, in order
    synthetic_data,  \* the __main__ block's variable
    outcome,         \* the step that raised, and how the __main__ block ended
    artifacts,       \* directories and files the script wrote
    files,           \* names of the files in the log directory
    handlers,        \* logging's registry: logger name -> its handlers
    instances,       \* LoggerManager instances of the process: <<[name, file]>>
    stdout,          \* what the last operation printed with print()
    stderr,          \* what the last operation wrote to standard error
    lastInit,        \* what the last LoggerManager.__init__ did
    lastLog,         \* where the last logged record was written
    scen,            \* the current series of constructions with one name and max
    made,            \* LoggerManager constructions so far
    retention        \* the max_log_files the constructors are given

vars == <<stream, pos, run, calls, results, emitted, pc, ran, synthetic_data,
          outcome, artifacts, files, handlers, instances, stdout, stderr, lastInit, lastLog, scen, made, retention>>

genVars == <<stream, pos, run, calls, results>>
mainVars == <<pc, ran, synthetic_data, outcome, artifacts>>
logVars == <<files, handlers, instances, stdout, stderr, lastInit, lastLog, scen, made, retention>>

(***************************************************************************)
(* Bounds of the model.                                                    *)
(***************************************************************************)
\* base rows per dataset (n = 100 in the source, scaled down)
NBase == 3
\* rows per outlier batch (n_outliers = 10 in the source, scaled down)
NOutliers == 1
\* period of the random stream
Period == 4
\* processes that load the module
MaxRuns == 2
\* calls of generate_synthetic_data per process
MaxCalls == 2

\* LoggerManager constructions in a behaviour
MaxInst == 3
\* largest max_log_files passed to a constructor
MaxKeep == 2
\* latest wall-clock second
MaxSecond == 2

\* line 7 of utils.py: max_log_files=3
DefaultMaxLogFiles == 3

\* raw values of the stream
Raw == 0 .. 2

\* component names, as character codes: "a" and "a-b"
Comps == {<<97>>, <<97, 45, 98>>}

\* the methods of LoggerManager that log
Levels == {"info", "warning", "error", "critical"}

(***************************************************************************)
(* Helpers on sequences.                                                   *)
(***************************************************************************)
RECURSIVE InsertSorted(_, _)
InsertSorted(x, s) ==
    IF s = <<>> THEN <<x>>
    ELSE IF x <= Head(s) THEN <<x>> \o s
    ELSE <<Head(s)>> \o InsertSorted(x, Tail(s))

RECURSIVE np_sort(_)
np_sort(s) == IF s = <<>> THEN <<>> ELSE InsertSorted(Head(s), np_sort(Tail(s)))

RECURSIVE SelectRows(_, _)
SelectRows(s, minPrice) ==
    IF s = <<>> THEN <<>>
    ELSE IF Head(s).Price >= minPrice
         THEN <<Head(s)>> \o SelectRows(Tail(s), minPrice)
         ELSE SelectRows(Tail(s), minPrice)

(***************************************************************************)
(* numpy's random generator.                                               *)
(***************************************************************************)
\* a module that never seeds: the generator goes on from where it is
np_random_seed_missing == pos

\* np.random.seed(1): the stream starts over
np_random_seed == 0

\* `size` raw values from position p on
RawDraws(p, size) == [i \in 1 .. size |-> stream[(p + i - 1) % Period]]

\* np.random.exponential(scale=100): values in [0, +oo)
ExponentialOf(r) == CASE r = 0 -> 3 [] r = 1 -> 5 [] OTHER -> 260

\* np.random.normal(loc=0, scale=50): values in (-oo, +oo)
NormalOf(r) == CASE r = 0 -> -1150 [] r = 1 -> -60 [] OTHER -> 70

\* a uniform draw that forgets its lower end: (high - low) * u
UniformOf_from_zero(low, high, r) == ((high - low) * r) \div (Cardinality(Raw))

\* np.random.uniform(low, high): low + (high - low) * u with u in [0, 1)
UniformOf(low, high, r) == low + ((high - low) * r) \div (Cardinality(Raw))

np_random_exponential(p, size) ==
    [i \in 1 .. size |-> ExponentialOf(RawDraws(p, size)[i])]

np_random_normal(p, size) ==
    [i \in 1 .. size |-> NormalOf(RawDraws(p, size)[i])]

np_random_uniform(low, high, p, size) ==
    [i \in 1 .. size |-> UniformOf(low, high, RawDraws(p, size)[i])]

(***************************************************************************)
(* generate_synthetic_data                                                 *)
(***************************************************************************)
\* quantity.clip(min=0)
clip(q, min) == IF q < min THEN min ELSE q

\* line 59-63: the linear demand model with noise, clipped
BaseQuantity(price, noise) ==
    [i \in 1 .. Len(price) |-> clip(1000 - 5 * price[i] + noise[i], 0)]

\* line 68 and 75: centre + noise
OutlierQuantity(centre, noise) == [i \in 1 .. Len(noise) |-> centre + noise[i]]

\* line 80: pd.DataFrame({'Price': price, 'Quantity': quantity})
DataFrame(price, quantity) ==
    [i \in 1 .. Len(price) |-> [Price |-> price[i], Quantity |-> quantity[i]]]

\* a filter that keeps every row
FilterPrices_keep_all(df) == df

\* line 83: df[df['Price'] >= 5]
FilterPrices(df) == SelectRows(df, 5)

\* Statements of the try block that may raise; 0: none does.
GenSites == 0 .. 5

\* Draws consumed before statement `site` of the try block
DrawsBefore(site) ==
    CASE site = 1 -> 0
      [] site = 2 -> NBase
      [] site = 3 -> 2 * NBase
      [] site = 4 -> 2 * NBase + 2 * NOutliers
      [] OTHER    -> 2 * NBase + 4 * NOutliers

\* an except clause that logs the error and does not raise it again
ExceptClause_swallow(msg) ==
    [log |-> <<[level |-> "error", msg |-> msg]>>, reraise |-> FALSE]

\* The except clause of a step: log the error, then `raise`
ExceptClause(msg) == [log |-> <<[level |-> "error", msg |-> msg]>>, reraise |-> TRUE]

\* The whole function from stream position p; failAt: the statement that raises.
generate_synthetic_data(p, failAt) ==
    LET price0   == np_sort(np_random_exponential(p, NBase))
        noise    == np_random_normal(p + NBase, NBase)
        qty0     == BaseQuantity(price0, noise)
        p1       == p + 2 * NBase
        oprice1  == np_random_uniform(5, 50, p1, NOutliers)
        oqty1    == OutlierQuantity(1100, np_random_normal(p1 + NOutliers, NOutliers))
        p2       == p1 + 2 * NOutliers
        oprice2  == np_random_uniform(51, 100, p2, NOutliers)
        oqty2    == OutlierQuantity(900, np_random_normal(p2 + NOutliers, NOutliers))
        price    == price0 \o oprice1 \o oprice2
        quantity == qty0 \o oqty1 \o oqty2
        df       == FilterPrices(DataFrame(price, quantity))
        start    == <<[level |-> "info", msg |-> "Generating synthetic data"]>>
        handler  == ExceptClause("Error in generating synthetic data")
    IN  IF failAt = 0
        THEN [raised |-> FALSE,
              df     |-> df,
              base   |-> DataFrame(price0, qty0),
              pos    |-> (p2 + 2 * NOutliers) % Period,
              log    |-> start \o <<[level |-> "info",
                                     msg |-> "Synthetic data generation completed"]>>]
        ELSE [raised |-> handler.reraise,
              df     |-> <<>>,
              base   |-> <<>>,
              pos    |-> (p + DrawsBefore(failAt)) % Period,
              log    |-> start \o handler.log]

(***************************************************************************)
(* SpecGen: processes that load the module and call the generator.         *)
(***************************************************************************)
NoLogger == [name |-> <<>>, now |-> 0, max |-> 0, k |-> 0, attempts |-> 0, failed |-> 0,
             raised |-> FALSE, removed |-> {}, file |-> <<>>, attached |-> 0]

NoLog == [inst |-> 0, sinks |-> <<>>]

NoScen == [name |-> <<>>, max |-> 0, created |-> <<>>, clean |-> TRUE, fresh |-> TRUE]

InitLogVars ==
    /\ files = {}
    /\ handlers = [c \in Comps |-> <<>>]
    /\ instances = <<>>
    /\ stdout = <<>>
    /\ stderr = <<>>
    /\ lastInit = NoLogger
    /\ lastLog = NoLog
    /\ scen = NoScen
    /\ made = 0
    /\ retention = DefaultMaxLogFiles

InitMainVars ==
    /\ pc = "start"
    /\ ran = <<>>
    /\ synthetic_data = <<>>
    /\ outcome = [raisedIn |-> "none", end |-> "running"]
    /\ artifacts = {}

NoResult == [run |-> 0, call |-> 0, df |-> <<>>, base |-> <<>>]

\* the record of a returned dataset; ref keeps the first dataset that a first
\* call after the seed returned
Returned(df, base) ==
    LET r == [run |-> run, call |-> calls + 1, df |-> df, base |-> base]
    IN  [ref  |-> IF results.ref = NoResult /\ calls = 0 THEN r ELSE results.ref,
         last |-> r]

InitGen ==
    /\ stream \in [0 .. Period - 1 -> Raw]
    /\ pos = 0
    /\ run = 0
    /\ calls = 0
    /\ results = [ref |-> NoResult, last |-> NoResult]
    /\ emitted = <<>>
    /\ InitMainVars
    /\ InitLogVars

\* line 23, at module load in a fresh process: np.random.seed(1)
Seed ==
    /\ run < MaxRuns
    /\ run' = run + 1
    /\ calls' = 0
    /\ pos' = np_random_seed
    /\ emitted' = <<>>
    /\ UNCHANGED <<stream, results>>
    /\ UNCHANGED mainVars
    /\ UNCHANGED logVars

\* a call of generate_synthetic_data() by code that imported the module
CallGenerate ==
    /\ run >= 1
    /\ calls < MaxCalls
    /\ \E failAt \in GenSites :
       \E r \in {generate_synthetic_data(pos, failAt)} :
             /\ pos' = r.pos
             /\ calls' = calls + 1
             /\ emitted' = emitted \o r.log
             /\ results' = IF r.raised THEN results ELSE Returned(r.df, r.base)
    /\ UNCHANGED <<stream, run>>
    /\ UNCHANGED mainVars
    /\ UNCHANGED logVars

NextGen == Seed \/ CallGenerate

SpecGen == InitGen /\ [][NextGen]_vars

(***************************************************************************)
(* utils.py: file names, glob and sorted.                                  *)
(***************************************************************************)
\* ".log"
LogExt == <<46, 108, 111, 103>>

\* datetime.now().strftime("%Y-%m-%d-%H-%M-%S"): a stamp of fixed width whose
\* text order is the order of the seconds (one digit here)
strftime(now) == <<48 + now>>

\* line 21: f"{script_name}-{timestamp}.log" (all files are in log_dir)
log_filename(script_name, now) == script_name \o <<45>> \o strftime(now) \o LogExt

IsPrefix(p, s) == Len(p) <= Len(s) /\ SubSeq(s, 1, Len(p)) = p

IsSuffix(p, s) == Len(p) <= Len(s) /\ SubSeq(s, Len(s) - Len(p) + 1, Len(s)) = p

\* line 57-58: glob of f"{script_name}-*.log"; `*` matches any text
GlobMatch(script_name, f) ==
    LET pre == script_name \o <<45>>
    IN  /\ Len(f) >= Len(pre) + Len(LogExt)
        /\ IsPrefix(pre, f)
        /\ IsSuffix(LogExt, f)

\* the order of Python strings
RECURSIVE StrLess(_, _)
StrLess(s, t) ==
    IF t = <<>> THEN FALSE
    ELSE IF s = <<>> THEN TRUE
    ELSE IF Head(s) # Head(t) THEN Head(s) < Head(t)
    ELSE StrLess(Tail(s), Tail(t))

\* line 58: sorted(...)
RECURSIVE sorted(_)
sorted(S) ==
    IF S = {} THEN <<>>
    ELSE LET m == CHOOSE x \in S : \A y \in S : x = y \/ StrLess(x, y)
         IN  <<m>> \o sorted(S \ {m})

\* the component whose constructor names a file f
Owner(f) == SubSeq(f, 1, Len(f) - Len(LogExt) - 2)

(***************************************************************************)
(* LoggerManager._cleanup_old_logs                                         *)
(***************************************************************************)
\* a loop that stops once max_log_files files are left
LoopCondition_keep_max(n, max_log_files) == n > max_log_files

\* line 61: while len(existing_logs) >= max_log_files
LoopCondition(n, max_log_files) == n >= max_log_files

\* line 61-66; fails: the files os.remove raises OSError for
RECURSIVE CleanupLoop(_, _, _, _, _)
CleanupLoop(existing_logs, max_log_files, fails, disk, done) ==
    IF ~LoopCondition(Len(existing_logs), max_log_files)
    THEN [disk |-> disk, attempts |-> done.attempts, printed |-> done.printed,
          raised |-> FALSE]
    ELSE IF existing_logs = <<>>
    THEN \* pop(0) of an empty list: IndexError
         [disk |-> disk, attempts |-> done.attempts, printed |-> done.printed,
          raised |-> TRUE]
    ELSE LET oldest_log == Head(existing_logs)
         IN  IF oldest_log \in fails
             THEN CleanupLoop(Tail(existing_logs), max_log_files, fails, disk,
                      [attempts |-> done.attempts + 1,
                       printed  |-> Append(done.printed, oldest_log)])
             ELSE CleanupLoop(Tail(existing_logs), max_log_files, fails,
                      disk \ {oldest_log},
                      [attempts |-> done.attempts + 1, printed |-> done.printed])

\* line 57: the files the pattern matches
Matching(script_name, disk) == {f \in disk : GlobMatch(script_name, f)}

\* the files the loop tries to remove
Attempted(script_name, max_log_files, disk) ==
    LET existing_logs == sorted(Matching(script_name, disk))
    IN  {existing_logs[i] : i \in {j \in 1 .. Len(existing_logs) :
                                       j <= Len(existing_logs) - max_log_files + 1}}

cleanup_old_logs(script_name, max_log_files, fails, disk) ==
    CleanupLoop(sorted(Matching(script_name, disk)), max_log_files, fails, disk,
                [attempts |-> 0, printed |-> <<>>])

(***************************************************************************)
(* SpecLog: LoggerManager instances constructed and used in one process.   *)
(***************************************************************************)
\* line 31-45: the file handler and the console handler
NewHandlers(file) ==
    <<[kind |-> "file", target |-> file], [kind |-> "console", target |-> <<>>]>>

\* the series of constructions with one name and one max_log_files
NextScen(script_name, max_log_files, now, c) ==
    LET same == scen.name = script_name
        from == IF same THEN scen
                ELSE [name |-> script_name, max |-> max_log_files, created |-> <<>>,
                      clean |-> TRUE, fresh |-> Matching(script_name, files) = {}]
    IN  [from EXCEPT !.created = Append(@, now),
                     !.clean = @ /\ c.printed = <<>> /\ ~c.raised]

\* LoggerManager.__init__(script_name, max_log_files) at one of `seconds`, in
\* a process whose logging registry is `registry` and whose instances are `insts`
Construct(registry, insts, seconds, limit) ==
    /\ made < limit
    /\ \E script_name \in Comps, now \in seconds :
       \E fails \in SUBSET Attempted(script_name, retention, files) :
       \E c \in {cleanup_old_logs(script_name, retention, fails, files)} :
         LET max_log_files == retention
             file == log_filename(script_name, now)
         IN  /\ files' = IF c.raised THEN c.disk ELSE c.disk \cup {file}
             /\ handlers' = IF c.raised THEN registry
                            ELSE [registry EXCEPT ![script_name] = @ \o NewHandlers(file)]
             /\ instances' = IF c.raised THEN insts
                             ELSE Append(insts, [name |-> script_name, file |-> file])
             /\ stdout' = c.printed
             /\ lastInit' = [name     |-> script_name,
                             now      |-> now,
                             max      |-> max_log_files,
                             k        |-> Cardinality(Matching(script_name, files)),
                             attempts |-> c.attempts,
                             failed   |-> Len(c.printed),
                             raised   |-> c.raised,
                             removed  |-> files \ c.disk,
                             file     |-> IF c.raised THEN <<>> ELSE file,
                             attached |-> IF c.raised THEN 0 ELSE Len(NewHandlers(file))]
             /\ scen' = NextScen(script_name, max_log_files, now, c)
    /\ made' = made + 1
    /\ stderr' = <<>>
    /\ lastLog' = NoLog
    /\ UNCHANGED retention
    /\ UNCHANGED <<pos, run, calls, results, stream, emitted>>
    /\ UNCHANGED mainVars

\* a constructor call in the running process
LoggerManagerInit == Construct(handlers, instances, 0 .. MaxSecond, MaxInst)

\* a constructor call in a fresh process, as the script makes one at each
\* run (line 20 of the script); the log directory is the one the earlier
\* processes left, and the clock did not go back since the last run
FreshProcessInit ==
    Construct([c \in Comps |-> <<>>], <<>>,
              {t \in 0 .. MaxKeep + 1 : t >= lastInit.now}, MaxKeep + 2)

\* the targets of the handlers of one kind, in the order of the handlers
RECURSIVE Targets(_, _)
Targets(hs, kind) ==
    IF hs = <<>> THEN <<>>
    ELSE IF Head(hs).kind = kind THEN <<Head(hs).target>> \o Targets(Tail(hs), kind)
    ELSE Targets(Tail(hs), kind)

\* line 68-82: info, warning, error, critical of instance i; the record goes
\* to every handler of logging.getLogger(script_name)
LogCall(level) ==
    /\ \E i \in 1 .. Len(instances) :
         LET hs == handlers[instances[i].name]
         IN  /\ lastLog' = [inst |-> i, sinks |-> Targets(hs, "file")]
             /\ stderr' = [j \in 1 .. Len(Targets(hs, "console")) |-> "record"]
    /\ stdout' = <<>>
    /\ level \in Levels
    /\ UNCHANGED <<files, handlers, instances, lastInit, scen, made, retention>>
    /\ UNCHANGED <<pos, run, calls, results, stream, emitted>>
    /\ UNCHANGED mainVars

info == LogCall("info")

warning == LogCall("warning")

error == LogCall("error")

critical == LogCall("critical")

\* everything but the log directory and the retention, at process start
InitProcess ==
    /\ stream = [i \in 0 .. Period - 1 |-> 0]
    /\ pos = 0
    /\ run = 0
    /\ calls = 0
    /\ results = [ref |-> NoResult, last |-> NoResult]
    /\ emitted = <<>>
    /\ InitMainVars
    /\ handlers = [c \in Comps |-> <<>>]
    /\ instances = <<>>
    /\ stdout = <<>>
    /\ stderr = <<>>
    /\ lastInit = NoLogger
    /\ lastLog = NoLog
    /\ scen = NoScen
    /\ made = 0

InitLog ==
    /\ InitProcess
    /\ files = {}
    /\ retention \in 0 .. MaxKeep

\* the log directory may hold files that runs before the first one left
InitRetention ==
    /\ InitProcess
    /\ files \in SUBSET {log_filename(c, 0) : c \in Comps}
    /\ retention \in 0 .. MaxKeep

NextRetention == FreshProcessInit

SpecRetention == InitRetention /\ [][NextRetention]_vars

NextLog == LoggerManagerInit \/ info \/ warning \/ error \/ critical

SpecLog == InitLog /\ [][NextLog]_vars

(***************************************************************************)
(* SpecMain: one run of the script, from the state module load leaves.     *)
(***************************************************************************)
Info(msg) == <<[level |-> "info", msg |-> msg]>>

\* where the __main__ block goes after a step: on, or to its except clause
AfterStep(propagates, next) == IF propagates THEN "except" ELSE next

\* the record of a step's exception
Raising(step, failed) ==
    IF failed THEN [outcome EXCEPT !.raisedIn = step] ELSE outcome

InitMain ==
    /\ stream \in [0 .. Period - 1 -> Raw]
    /\ pos = np_random_seed
    /\ run = 1
    /\ calls = 0
    /\ results = [ref |-> NoResult, last |-> NoResult]
    /\ emitted = <<>>
    /\ InitMainVars
    /\ InitLogVars

\* line 133
MainStart ==
    /\ pc = "start"
    /\ emitted' = emitted \o Info("Starting data generation script")
    /\ pc' = "directories"
    /\ UNCHANGED <<ran, synthetic_data, outcome, artifacts>>
    /\ UNCHANGED genVars
    /\ UNCHANGED logVars

\* line 136 and create_output_directories; failAt: the makedirs that raises
create_output_directories ==
    /\ pc = "directories"
    /\ \E failAt \in 0 .. 2 :
         LET handler == ExceptClause("Failed to create output directories")
             made1   == IF failAt = 1 THEN {} ELSE {"data/raw"}
             made2   == IF failAt \in {1, 2} THEN {} ELSE {"artifacts/charts"}
         IN  /\ artifacts' = artifacts \cup made1 \cup made2
             /\ emitted' = emitted \o Info("Creating output directories") \o
                    (IF failAt = 0
                     THEN Info("Output directories created successfully")
                     ELSE handler.log)
             /\ outcome' = Raising("directories", failAt # 0)
             /\ pc' = AfterStep(failAt # 0 /\ handler.reraise, "generation")
    /\ ran' = Append(ran, "directories")
    /\ UNCHANGED synthetic_data
    /\ UNCHANGED genVars
    /\ UNCHANGED logVars

\* line 139: synthetic_data = generate_synthetic_data()
MainGenerate ==
    /\ pc = "generation"
    /\ \E failAt \in GenSites :
       \E r \in {generate_synthetic_data(pos, failAt)} :
             /\ pos' = r.pos
             /\ calls' = calls + 1
             /\ emitted' = emitted \o r.log
             /\ results' = IF failAt # 0 THEN results ELSE Returned(r.df, r.base)
             /\ synthetic_data' = r.df
             /\ outcome' = Raising("generation", failAt # 0)
             /\ pc' = AfterStep(r.raised, "visualization")
    /\ ran' = Append(ran, "generation")
    /\ UNCHANGED <<stream, run, artifacts>>
    /\ UNCHANGED logVars

\* line 142 and visualize_data_distribution; failAt: 1 while plotting, 2 in savefig
visualize_data_distribution ==
    /\ pc = "visualization"
    /\ \E failAt \in 0 .. 2 :
         LET handler == ExceptClause("Error in creating visualizations")
         IN  /\ artifacts' = IF failAt = 0
                             THEN artifacts \cup {"raw_data_distribution.png"}
                             ELSE artifacts
             /\ emitted' = emitted \o Info("Creating data distribution visualizations") \o
                    (IF failAt = 0
                     THEN Info("Data distribution visualizations saved")
                     ELSE handler.log)
             /\ outcome' = Raising("visualization", failAt # 0)
             /\ pc' = AfterStep(failAt # 0 /\ handler.reraise, "save")
    /\ ran' = Append(ran, "visualization")
    /\ UNCHANGED synthetic_data
    /\ UNCHANGED genVars
    /\ UNCHANGED logVars

\* line 145 and save_generated_data; failAt: 1 when to_csv raises
save_generated_data ==
    /\ pc = "save"
    /\ \E failAt \in 0 .. 1 :
         LET handler == ExceptClause("Error saving data")
         IN  /\ artifacts' = IF failAt = 0
                             THEN artifacts \cup {"synthetic_pricing_data.csv"}
                             ELSE artifacts
             /\ emitted' = emitted \o
                    (IF failAt = 0 THEN Info("Data saved") ELSE handler.log)
             /\ outcome' = Raising("save", failAt # 0)
             /\ pc' = AfterStep(failAt # 0 /\ handler.reraise, "success")
    /\ ran' = Append(ran, "save")
    /\ UNCHANGED synthetic_data
    /\ UNCHANGED genVars
    /\ UNCHANGED logVars

\* line 147
MainSuccess ==
    /\ pc = "success"
    /\ emitted' = emitted \o Info("Data generation completed successfully")
    /\ pc' = "done"
    /\ outcome' = [outcome EXCEPT !.end = "completed"]
    /\ UNCHANGED <<ran, synthetic_data, artifacts>>
    /\ UNCHANGED genVars
    /\ UNCHANGED logVars

\* line 148-149: the driver's except clause logs and does not raise
MainExcept ==
    /\ pc = "except"
    /\ emitted' = emitted \o <<[level |-> "critical", msg |-> "Script execution failed"]>>
    /\ pc' = "done"
    /\ outcome' = [outcome EXCEPT !.end = "swallowed"]
    /\ UNCHANGED <<ran, synthetic_data, artifacts>>
    /\ UNCHANGED genVars
    /\ UNCHANGED logVars

NextMain ==
    \/ MainStart
    \/ create_output_directories
    \/ MainGenerate
    \/ visualize_data_distribution
    \/ save_generated_data
    \/ MainSuccess
    \/ MainExcept

SpecMain == InitMain /\ [][NextMain]_vars

(***************************************************************************)
(* Claims on the generator (SpecGen).                                      *)
(***************************************************************************)
Rows(df) == {df[i] : i \in 1 .. Len(df)}

\* C1: every row of a returned dataset has Price >= 5.
C1_PriceAtLeastFive ==
    \A row \in Rows(results.last.df) \cup Rows(results.ref.df) : row.Price >= 5

\* C1 happens: a call returned a dataset from which the filter removed a base
\* row with Price < 5 and in which rows are left.
C1_Witness ==
    /\ results.last # NoResult
    /\ \E row \in Rows(results.last.base) : row.Price < 5
    /\ results.last.df # <<>>

\* C2: every row of a returned dataset, base row or outlier row, has
\* Quantity >= 0.
C2_QuantityNonNegative ==
    \A row \in Rows(results.last.df) : row.Quantity >= 0

\* C3: the number of rows returned is the number of base rows with
\* Price >= 5 plus the two outlier batches, none of whose rows the filter
\* removes; so it lies between 2 * NOutliers and NBase + 2 * NOutliers.
C3_RowCount ==
    results.last # NoResult =>
        LET kept == Len(SelectRows(results.last.base, 5))
            n    == Len(results.last.df)
        IN  /\ n = kept + 2 * NOutliers
            /\ 2 * NOutliers <= n
            /\ n <= NBase + 2 * NOutliers
            /\ \A i \in 1 .. 2 * NOutliers :
                 results.last.df[n - i + 1].Price >= 5

\* C3 happens: a returned dataset lost some base rows to the filter and kept
\* others.
C3_Witness ==
    /\ results.last # NoResult
    /\ Len(SelectRows(results.last.base, 5)) \in 1 .. NBase - 1

\* C5 as stated: any two invocations return the same rows.
C5_AnyTwoCallsAgree ==
    (results.ref # NoResult /\ results.last # NoResult) =>
        results.last.df = results.ref.df

\* C5 as amended: the first invocation after the seed was set at module load
\* returns the same rows in every process.
C5_FirstCallsAgree ==
    (results.ref # NoResult /\ results.last.call = 1) =>
        results.last.df = results.ref.df

\* C5 happens: a later process made its first call and it returned a dataset
\* with rows, after an earlier process's first call returned one.
C5_Witness ==
    /\ results.ref # NoResult
    /\ results.last.call = 1
    /\ results.last.run > results.ref.run
    /\ results.last.df # <<>>

(***************************************************************************)
(* Claims on the main block (SpecMain).                                    *)
(***************************************************************************)
StepOrder == <<"directories", "generation", "visualization", "save">>

StepIndex(step) == CHOOSE i \in 1 .. Len(StepOrder) : StepOrder[i] = step

ErrorOf(step) ==
    CASE step = "directories"   -> "Failed to create output directories"
      [] step = "generation"    -> "Error in generating synthetic data"
      [] step = "visualization" -> "Error in creating visualizations"
      [] OTHER                  -> "Error saving data"

Logged(level) == {i \in 1 .. Len(emitted) : emitted[i].level = level}

\* C6: once a step raised, exactly one error record, that step's, is logged;
\* the exception reaches the driver; no later step runs and no step runs
\* twice; the success message is never logged; the driver logs exactly one
\* critical record and ends without raising.
C6_FailureIsTerminal ==
    outcome.raisedIn # "none" =>
        /\ Cardinality(Logged("error")) = 1
        /\ \A i \in Logged("error") : emitted[i].msg = ErrorOf(outcome.raisedIn)
        /\ pc \in {"except", "done"}
        /\ ran = SubSeq(StepOrder, 1, StepIndex(outcome.raisedIn))
        /\ \A i \in 1 .. Len(emitted) :
             emitted[i].msg # "Data generation completed successfully"
        /\ pc = "except" => Logged("critical") = {}
        /\ pc = "done" => /\ Cardinality(Logged("critical")) = 1
                          /\ emitted[Len(emitted)].level = "critical"
                          /\ outcome.end = "swallowed"

\* C6 happens: the visualization step raised after two steps succeeded, and
\* the driver has ended.
C6_Witness ==
    /\ outcome.raisedIn = "visualization"
    /\ pc = "done"
    /\ synthetic_data # <<>>

(***************************************************************************)
(* Claims on LoggerManager (SpecLog).                                      *)
(***************************************************************************)
\* the log files a component's constructors created that are on disk
OwnFiles(script_name) == {f \in files : Owner(f) = script_name}

StrictlyIncreasing(s) == \A i \in 1 .. Len(s) - 1 : s[i] < s[i + 1]

\* the files of the last n constructions of the series
LatestCreated(n) ==
    {log_filename(scen.name, scen.created[i]) :
        i \in {j \in 1 .. Len(scen.created) : j > Len(scen.created) - n}}

\* a series of max_log_files + 2 constructions for one component, begun when
\* no file matched the component's pattern, in which every removal succeeded
RetentionSeries ==
    /\ scen.name # <<>>
    /\ scen.max >= 1
    /\ scen.fresh
    /\ scen.clean
    /\ Len(scen.created) = scen.max + 2

C7_RemovalFailureReported ==
    lastInit.failed > 0 =>
        /\ Len(stderr) = lastInit.failed
        /\ ~lastInit.raised
        /\ lastInit.file \in files
        /\ lastInit.attached = 2

\* C8: a record logged through an instance is written to that instance's own
\* file, once, to the console, once, and to no other instance's file.
C8_OwnFileOnly ==
    lastLog.inst # 0 =>
        /\ lastLog.sinks = <<instances[lastLog.inst].file>>
        /\ Len(stderr) = 1

\* C9: a constructor for a component removes no file of another component.
C9_OtherComponentsUntouched ==
    \A f \in lastInit.removed : Owner(f) = lastInit.name

\* C10: _cleanup_old_logs never pops from an empty list and never raises, and
\* makes max(0, k - max_log_files + 1) removal attempts on k matching files.
C10_CleanupTerminates ==
    lastInit.name # <<>> =>
        /\ ~lastInit.raised
        /\ lastInit.attempts =
             (IF lastInit.k - lastInit.max + 1 > 0
              THEN lastInit.k - lastInit.max + 1 ELSE 0)

====
